---- MODULE Spec2Model ----
(***************************************************************************)
(* State-machine model of the cnn-visualizer training controller: the      *)
(* useModel hook (train / stopTraining / pauseTraining / initModel /       *)
(* loadModel / loadPretrained and the dispose-on-change effect) together   *)
(* with the controls of TrainingPanel, ModelControls and App that issue    *)
(* its commands.  JavaScript runs each handler to completion between two   *)
(* awaits, so every action below is one synchronous segment of the code.   *)
(***************************************************************************)
EXTENDS Integers, Sequences, FiniteSets, TLC

\* ------------------------------------------------------------------------
\* Bounds of the model
\* ------------------------------------------------------------------------
MaxEpochs == 2
MaxNumTrain == 2
SampleNumTrain == 1
MaxBatchSize == 2
MaxRuns == 2
MaxModels == 2
MaxTrained == 2
MaxExamples == 8
MaxSliceSize == 8
MaxImportance == 300
MaxCells == 2
MaxFilters == 2
MaxAct == 1
MaxLayers == 3
MaxInputs == 2
MaxJobs == 2
MaxPredictions == 2

\* the sample dataset of the panel ("Sample dataset (500 images)") and the
\* panel's default batch size
SampleExamples == 500
DefaultBatchSize == 32

\* batch % 10 === 0 : the loop yields a frame after every tenth batch
FramePeriod == 10

\* importance values are the multiples of 1 / Grid: 0.33 = 99 / 300,
\* 1/3 = 100 / 300, 0.67 = 201 / 300, 2/3 = 200 / 300, 1 = 300 / 300
Grid == 300

\* the largest value of a colour channel
MaxChannel == 255

RunIds == 1..MaxRuns
NoModel == 0

VARIABLES
    model,            \* useState model: id of the active model, NoModel = null
    nextModel,        \* id the next created/loaded tf.LayersModel gets
    disposed,         \* ids of the models on which dispose() has been called
    isTraining,       \* useState isTraining
    isPaused,         \* useState isPaused
    trainingProgress, \* useState trainingProgress
    trainingHistory,  \* useState trainingHistory (published history)
    trainedEpochs,    \* useState trainedEpochs
    dataLoaded,       \* useState dataLoaded
    dataRef,          \* dataRef.current: numTrain of the dataset, 0 = null
    stopTrainingRef,  \* stopTrainingRef.current
    pauseTrainingRef, \* pauseTrainingRef.current
    runs,             \* the invocations of train(): locals and await position
    isLoadingData,    \* TrainingPanel isLoadingData (loadData in flight)
    isLoading,        \* ModelControls isLoading (loadModel in flight)
    isLoadingModel,   \* App isLoadingModel (handleModelTypeChange in flight)
    userTrainedModel, \* App userTrainedModel (a snapshot has been saved)
    modelSource,      \* useState modelSource
    optimizer,        \* who configured the optimizer of the active model:
                      \* "created" (createModel / load) or "train"
    lastValAccuracy,  \* useState lastValAccuracy: 0 = null, k = the
                      \* validation accuracy of a run's epoch k
    useFullDataset,   \* useState useFullDataset
    dataCall,         \* the loadData call in flight: "none" or its variant
    savedWeightsRef,  \* App savedWeightsRef.current: tensors of the
                      \* snapshot, 0 = null
    gb,               \* the batches an epoch loop has sliced with getBatch
    error,            \* ModelControls error: the last load failed
    cam,              \* CAMViewer: the computeCAM invocations and the overlay
    heat,             \* one activation map and the heatmap computed from it
    pixel,            \* the colour the hot colormap gives one importance
    pred              \* App: handleImageReady invocations and their tensors

vars == <<model, nextModel, disposed, isTraining, isPaused, trainingProgress,
          trainingHistory, trainedEpochs, dataLoaded, dataRef,
          stopTrainingRef, pauseTrainingRef, runs, isLoadingData, isLoading,
          isLoadingModel, userTrainedModel, modelSource, optimizer,
          lastValAccuracy, useFullDataset, dataCall, savedWeightsRef, gb,
          error, cam, heat, pixel, pred>>

modelVars == <<model, nextModel, disposed, modelSource, optimizer>>
viewVars == <<cam, heat, pixel, pred>>
loadVars == <<isLoadingData, isLoading, isLoadingModel, userTrainedModel,
              dataCall, savedWeightsRef, gb, error, viewVars>>
dataVars == <<dataLoaded, dataRef, useFullDataset>>
flagVars == <<stopTrainingRef, pauseTrainingRef>>

\* ------------------------------------------------------------------------
\* The locals of one train() invocation
\* ------------------------------------------------------------------------
IdleRun ==
    [pc |-> "idle", activeModel |-> NoModel, epochs |-> 0, batchSize |-> 0,
     numBatches |-> 0, epoch |-> 0, batch |-> 0, batchCount |-> 0,
     epochLoss |-> 0, epochAcc |-> 0, slices |-> FALSE,
     completedEpochs |-> 0, history |-> <<>>]

\* pcs at which the invocation is suspended on an await
AwaitPcs == {"pauseE", "pauseB", "batch", "frameB", "eval", "frameE"}

Active(r) == r.pc \in AwaitPcs

EmptyProgress == [epoch |-> 0, batch |-> 0, totalBatches |-> 0]

\* Math.ceil(numTrain / batchSize)
CeilDiv(a, b) == (a + b - 1) \div b

\* ------------------------------------------------------------------------
\* Synchronous control flow of train(), from a loop position to the next
\* await (or to the return / throw)
\* ------------------------------------------------------------------------

\* lines 218-224: the loop is left, completedEpochs is added to
\* trainedEpochs and train() returns history; the other locals are gone
Finish(r) ==
    [IdleRun EXCEPT !.pc = "done", !.epochs = r.epochs,
                    !.completedEpochs = r.completedEpochs,
                    !.history = r.history]

\* a tf call on a disposed model throws: train() rejects where it stands
Throw(r) == [r EXCEPT !.pc = "failed"]

\* a wait loop that tests the stop flag with the wrong sign
PauseWaitingWrongSign(stop, pause) == pause /\ stop

\* a wait loop that does not test the stop flag
PauseWaitingNoStop(stop, pause) == pause

\* condition of the two wait loops, lines 134 and 146
PauseWaiting(stop, pause) == pause /\ ~stop

\* the validation step without the stop check of line 183
AfterBatchesNoStop(r, stop) ==
    IF r.activeModel \in disposed THEN Throw(r)
    ELSE [r EXCEPT !.pc = "eval"]

\* lines 183-188: after the batch loop
AfterBatches(r, stop) ==
    IF stop THEN Finish(r)
    ELSE IF r.activeModel \in disposed THEN Throw(r)
    ELSE [r EXCEPT !.pc = "eval"]

\* the batch without the stop check of line 149
BatchBodyNoStop(r, stop) ==
    IF r.activeModel \in disposed THEN Throw([r EXCEPT !.slices = TRUE])
    ELSE [r EXCEPT !.pc = "batch", !.slices = TRUE]

\* lines 149-153: after the batch-level pause wait; getBatch (line 151)
\* allocates the image and label slices of the batch before trainOnBatch
\* is called
BatchBody(r, stop) ==
    IF stop THEN AfterBatches(r, stop)
    ELSE IF r.activeModel \in disposed THEN Throw([r EXCEPT !.slices = TRUE])
    ELSE [r EXCEPT !.pc = "batch", !.slices = TRUE]

\* the batch loop without the pause wait of lines 146-148
LoopBatchNoPause(r, stop, pause) ==
    IF r.batch >= r.numBatches THEN AfterBatches(r, stop)
    ELSE IF stop THEN AfterBatches(r, stop)
    ELSE BatchBody(r, stop)

\* lines 143-148: head of the batch loop
LoopBatch(r, stop, pause) ==
    IF r.batch >= r.numBatches THEN AfterBatches(r, stop)
    ELSE IF stop THEN AfterBatches(r, stop)
    ELSE IF PauseWaiting(stop, pause) THEN [r EXCEPT !.pc = "pauseB"]
    ELSE BatchBody(r, stop)

\* lines 137-143: after the epoch-level pause wait
EpochBody(r, stop, pause) ==
    IF stop THEN Finish(r)
    ELSE LoopBatch([r EXCEPT !.batch = 0, !.batchCount = 0,
                             !.epochLoss = 0, !.epochAcc = 0], stop, pause)

\* lines 130-136: head of the epoch loop
LoopEpoch(r, stop, pause) ==
    IF r.epoch >= r.epochs THEN Finish(r)
    ELSE IF stop THEN Finish(r)
    ELSE IF PauseWaiting(stop, pause) THEN [r EXCEPT !.pc = "pauseE"]
    ELSE EpochBody(r, stop, pause)

\* the loss and the accuracy trainOnBatch returns for a batch: stand-in
\* numbers that differ from batch to batch
BatchLoss(batch) == batch + 1
BatchAcc(batch) == 2 * batch + 1

\* a mean over one batch more than were executed
MeanOffByOne(sum, count) == [num |-> sum, den |-> count + 1]

\* lines 192-193: epochLoss / batchCount, kept as a fraction
Mean(sum, count) == [num |-> sum, den |-> count]

\* the epoch record without completedEpochs++ of line 203
RecordEpochNoCount(r) ==
    [r EXCEPT !.history = Append(@, [epoch |-> r.epoch + 1,
                                     batches |-> r.batchCount,
                                     loss |-> Mean(r.epochLoss,
                                                   r.batchCount),
                                     accuracy |-> Mean(r.epochAcc,
                                                       r.batchCount)]),
              !.pc = "frameE"]

\* lines 192-203: one record is pushed on the local history
RecordEpoch(r) ==
    [r EXCEPT !.history = Append(@, [epoch |-> r.epoch + 1,
                                     batches |-> r.batchCount,
                                     loss |-> Mean(r.epochLoss,
                                                   r.batchCount),
                                     accuracy |-> Mean(r.epochAcc,
                                                       r.batchCount)]),
              !.completedEpochs = @ + 1,
              !.pc = "frameE"]

\* lines 218-222, applied when the segment reaches the return
Commit(i, r2) ==
    /\ runs' = [runs EXCEPT ![i] = r2]
    /\ IF r2.pc = "done"
       THEN /\ trainedEpochs' = trainedEpochs + r2.completedEpochs
            /\ isTraining' = FALSE
            /\ isPaused' = FALSE
       ELSE UNCHANGED <<trainedEpochs, isTraining, isPaused>>

\* ------------------------------------------------------------------------
\* Init
\* ------------------------------------------------------------------------

\* no epoch loop is being enumerated
NoBatches == [numTrain |-> 0, batchSize |-> 0, batch |-> 0, slices |-> <<>>]

\* the state after the first render, apart from gb
InitApp ==
    /\ model = NoModel
    /\ nextModel = 1
    /\ disposed = {}
    /\ isTraining = FALSE
    /\ isPaused = FALSE
    /\ trainingProgress = EmptyProgress
    /\ trainingHistory = <<>>
    /\ trainedEpochs = 0
    /\ dataLoaded = FALSE
    /\ dataRef = 0
    /\ stopTrainingRef = FALSE
    /\ pauseTrainingRef = FALSE
    /\ runs = [i \in RunIds |-> IdleRun]
    /\ isLoadingData = FALSE
    /\ isLoading = FALSE
    /\ isLoadingModel = FALSE
    /\ userTrainedModel = FALSE
    /\ modelSource = "null"
    /\ optimizer = "none"
    /\ lastValAccuracy = 0
    /\ useFullDataset = FALSE
    /\ dataCall = "none"
    /\ savedWeightsRef = 0
    /\ error = FALSE

\* CAMViewer before its first effect: no model layers given, no input
\* tensor, no prediction, no computeCAM invocation, empty overlay canvas
NoCam == [layers |-> <<>>, input |-> 0, released |-> {}, prediction |-> 0,
          jobs |-> <<>>, overlay |-> 0]

\* App before the first drawing: no handleImageReady invocation, no input
\* tensor held, no layer outputs in state, no tensor alive
NoPred == [isPredicting |-> FALSE, inputTensorRef |-> 0, layerOutputs |-> 0,
           calls |-> <<>>, live |-> {}]

\* no activation map is being normalised
NoHeat == [act |-> <<>>, done |-> FALSE, cam |-> <<>>, range |-> 0]

\* no pixel is being coloured
NoPixel == [value |-> 0, drawn |-> FALSE, rgb |-> <<>>, hot |-> <<>>]

Init ==
    /\ InitApp
    /\ gb = NoBatches
    /\ cam = NoCam
    /\ heat = NoHeat
    /\ pixel = NoPixel
    /\ pred = NoPred

\* ------------------------------------------------------------------------
\* Model creation and replacement
\* ------------------------------------------------------------------------

\* setModel(m) followed by the cleanup of the [model] effect (lines 346-353),
\* which disposes the model of the previous render
ModelAfterSet == nextModel
DisposedAfterSet == IF model = NoModel THEN disposed ELSE disposed \cup {model}

\* the controls that create a model are usable while ids remain
CanCreate == nextModel <= MaxModels

\* setModel with the metadata and history resets that initModel, loadModel
\* and loadPretrained share
SetModel(source) ==
    /\ model' = ModelAfterSet
    /\ nextModel' = nextModel + 1
    /\ disposed' = DisposedAfterSet
    /\ modelSource' = source
    /\ trainingHistory' = <<>>
    /\ lastValAccuracy' = 0

\* initModel / loadModel / loadPretrained: the new model is compiled and
\* becomes the active one; history and trainedEpochs are reset
ReplaceModel(source) ==
    /\ SetModel(source)
    /\ optimizer' = "created"
    /\ trainedEpochs' = 0

\* the model selector of App is disabled while training or loading
SelectEnabled == ~isTraining /\ ~isLoadingModel

\* handleModelTypeChange('untrained'): initModel(0.001), no await
SelectUntrained ==
    /\ SelectEnabled
    /\ CanCreate
    /\ ReplaceModel("new")
    /\ UNCHANGED <<isTraining, isPaused, trainingProgress, dataVars,
                   flagVars, runs, loadVars>>

\* handleModelTypeChange('user-saved'): initModel(0.001), then setWeights
\* with clones of the snapshot tensors, which must still be usable
SelectUserSaved ==
    /\ SelectEnabled
    /\ userTrainedModel
    /\ savedWeightsRef # 0
    /\ savedWeightsRef \notin disposed
    /\ CanCreate
    /\ ReplaceModel("new")
    /\ UNCHANGED <<isTraining, isPaused, trainingProgress, dataVars,
                   flagVars, runs, loadVars>>

\* handleModelTypeChange('pretrained') up to await loadPretrained()
SelectPretrained ==
    /\ SelectEnabled
    /\ CanCreate
    /\ isLoadingModel' = TRUE
    /\ UNCHANGED <<modelVars, isTraining, isPaused, trainingProgress,
                   trainingHistory, lastValAccuracy, trainedEpochs, dataVars,
                   flagVars, runs, isLoadingData, isLoading,
                   userTrainedModel, dataCall, savedWeightsRef, gb, viewVars, error>>

\* loadPretrained resolves: lines 280-292, then the finally of the handler
PretrainedLoaded ==
    /\ isLoadingModel
    /\ ReplaceModel("pretrained")
    /\ isLoadingModel' = FALSE
    /\ UNCHANGED <<isTraining, isPaused, trainingProgress, dataVars,
                   flagVars, runs, isLoadingData, isLoading,
                   userTrainedModel, dataCall, savedWeightsRef, gb, viewVars, error>>

\* a failed load that drops the active model
LoadFailureDropsModel ==
    /\ model' = NoModel
    /\ disposed' = DisposedAfterSet
    /\ modelSource' = "null"
    /\ UNCHANGED <<nextModel, optimizer, trainingHistory, lastValAccuracy,
                   trainedEpochs>>

\* the catch blocks of loadModel and loadPretrained (lines 271-274 and
\* 293-296): the error is logged and rethrown, no setter is called
LoadFailure ==
    UNCHANGED <<modelVars, trainingHistory, lastValAccuracy, trainedEpochs>>

\* loadPretrained rejects: lines 293-296, caught by the handler
PretrainedFailed ==
    /\ isLoadingModel
    /\ isLoadingModel' = FALSE
    /\ LoadFailure
    /\ UNCHANGED <<isTraining, isPaused, trainingProgress, dataVars,
                   flagVars, runs, isLoadingData, isLoading,
                   userTrainedModel, dataCall, savedWeightsRef, gb, viewVars, error>>

\* the Load Model button of ModelControls: disabled only while files are
\* missing or a load is in flight
LoadEnabled == ~isLoading

\* ModelControls.handleLoad up to await onLoad(jsonFile, weightsFiles)
HandleLoad ==
    /\ LoadEnabled
    /\ CanCreate
    /\ isLoading' = TRUE
    /\ error' = FALSE
    /\ UNCHANGED <<modelVars, isTraining, isPaused, trainingProgress,
                   trainingHistory, lastValAccuracy, trainedEpochs, dataVars,
                   flagVars, runs, isLoadingData, isLoadingModel,
                   userTrainedModel, dataCall, savedWeightsRef, gb, viewVars>>

\* loadModel resolves: lines 258-270, then the finally of handleLoad
ModelLoaded ==
    /\ isLoading
    /\ ReplaceModel("loaded")
    /\ isLoading' = FALSE
    /\ UNCHANGED <<isTraining, isPaused, trainingProgress, dataVars,
                   flagVars, runs, isLoadingData, isLoadingModel,
                   userTrainedModel, dataCall, savedWeightsRef, gb, viewVars, error>>

\* loadModel rejects: lines 271-274, caught by handleLoad
ModelLoadFailed ==
    /\ isLoading
    /\ isLoading' = FALSE
    /\ LoadFailure
    /\ error' = TRUE
    /\ UNCHANGED <<isTraining, isPaused, trainingProgress, dataVars,
                   flagVars, runs, isLoadingData, isLoadingModel,
                   userTrainedModel, dataCall, savedWeightsRef, gb, viewVars>>

\* handleJsonChange / handleWeightsChange: picking a file clears the error
HandleJsonChange ==
    /\ error
    /\ error' = FALSE
    /\ UNCHANGED <<modelVars, isTraining, isPaused, trainingProgress,
                   trainingHistory, lastValAccuracy, trainedEpochs, dataVars,
                   flagVars, runs, isLoadingData, isLoading, isLoadingModel,
                   userTrainedModel, dataCall, savedWeightsRef, gb, viewVars>>

\* a snapshot that keeps the model's own weight tensors
SnapshotTensorsNoClone == model

\* model.getWeights().map(w => w.clone()): the tensors of a snapshot are
\* new tensors, distinct from every model's (a positive id) and from the
\* previous snapshot's; the k-th snapshot is -k
SnapshotTensors == savedWeightsRef - 1

\* handleSaveTrainedModel; its button is shown when trainedEpochs > 0,
\* nothing is saved yet and no run is active
SaveTrainedModel ==
    /\ trainedEpochs > 0
    /\ ~userTrainedModel
    /\ ~isTraining
    /\ model # NoModel
    /\ savedWeightsRef' = SnapshotTensors
    /\ disposed' = IF savedWeightsRef = 0 THEN disposed
                   ELSE disposed \cup {savedWeightsRef}
    /\ userTrainedModel' = TRUE
    /\ UNCHANGED <<model, nextModel, modelSource, optimizer, isTraining,
                   isPaused, trainingProgress, trainingHistory,
                   lastValAccuracy, trainedEpochs, dataVars, flagVars, runs,
                   isLoadingData, isLoading, isLoadingModel, dataCall, gb, viewVars, error>>

\* ------------------------------------------------------------------------
\* Dataset
\* ------------------------------------------------------------------------

\* the Load Data button of TrainingPanel
LoadDataEnabled == ~isTraining /\ ~dataLoaded /\ ~isLoadingData

\* loadData(useFull), lines 66-76, up to the await of the loader
LoadDataBegin(useFull) ==
    /\ dataLoaded' = FALSE
    /\ dataCall' = IF useFull THEN "full" ELSE "sample"
    /\ UNCHANGED <<dataRef, useFullDataset>>

\* handleLoadData up to the await of loadData
HandleLoadData(useFull) ==
    /\ LoadDataEnabled
    /\ dataCall = "none"
    /\ isLoadingData' = TRUE
    /\ LoadDataBegin(useFull)
    /\ UNCHANGED <<modelVars, isTraining, isPaused, trainingProgress,
                   trainingHistory, lastValAccuracy, trainedEpochs, flagVars,
                   runs, isLoading, isLoadingModel, userTrainedModel,
                   savedWeightsRef, gb, viewVars, error>>

\* numTrain of the dataset a loader returns: trainImages.length of the
\* bundled sample file, NUM_TRAIN_ELEMENTS for the full dataset
NumTrainOf(variant) ==
    IF variant = "full" THEN MaxNumTrain ELSE SampleNumTrain

\* the loader resolves with its dataset: lines 78-82, then the finally of
\* handleLoadData
DataLoaded ==
    /\ dataCall # "none"
    /\ dataRef' = NumTrainOf(dataCall)
    /\ dataLoaded' = TRUE
    /\ useFullDataset' = (dataCall = "full")
    /\ dataCall' = "none"
    /\ isLoadingData' = FALSE
    /\ UNCHANGED <<modelVars, isTraining, isPaused, trainingProgress,
                   trainingHistory, lastValAccuracy, trainedEpochs, flagVars,
                   runs, isLoading, isLoadingModel, userTrainedModel,
                   savedWeightsRef, gb, viewVars, error>>

\* the catch block of loadData, lines 84-87: the error is logged and
\* rethrown, dataLoaded stays as line 67 left it
LoadDataFailure == dataLoaded' = dataLoaded

\* the loader rejects: lines 84-87, then the catch and finally of
\* handleLoadData
DataLoadFailed ==
    /\ dataCall # "none"
    /\ dataCall' = "none"
    /\ isLoadingData' = FALSE
    /\ LoadDataFailure
    /\ UNCHANGED <<modelVars, isTraining, isPaused, trainingProgress,
                   trainingHistory, lastValAccuracy, trainedEpochs, dataRef,
                   useFullDataset, flagVars, runs, isLoading, isLoadingModel,
                   userTrainedModel, savedWeightsRef, gb, viewVars, error>>

\* ------------------------------------------------------------------------
\* Training commands
\* ------------------------------------------------------------------------

\* a start button that stays rendered during a run
StartEnabledWhileTraining == dataLoaded

\* the start button is rendered when !isTraining and disabled when
\* !dataLoaded
StartEnabled == ~isTraining /\ dataLoaded

\* a train() invocation takes the first slot that holds no live invocation
FreeSlots == {i \in RunIds : runs[i].pc \in {"idle", "done", "rejected"}}
FreeSlot == CHOOSE i \in FreeSlots : \A j \in FreeSlots : i <= j

\* a guard that does not look at the dataset
NotReadyModelOnly(activeModel, data) == activeModel = NoModel

\* line 111: !activeModel || !dataRef.current
NotReady(activeModel, data) == activeModel = NoModel \/ data = 0

\* train() returned at line 113 without touching any state
RejectedRun == [IdleRun EXCEPT !.pc = "rejected"]

\* a run that starts with the flags of the previous run
FlagAtStartKept(flag) == flag

\* lines 121-122: both flags are cleared when a run starts
FlagAtStart(flag) == FALSE

\* train(), lines 109-153, up to its first await: the guard, compileModel
\* (line 117), the resets and the loop; base and compiled are trainedEpochs
\* and the optimizer as the caller left them
Train(activeModel, epochs, batchSize, base, compiled) ==
    IF NotReady(activeModel, dataRef)
    THEN /\ runs' = [runs EXCEPT ![FreeSlot] = RejectedRun]
         /\ trainedEpochs' = base
         /\ optimizer' = compiled
         /\ UNCHANGED <<isTraining, isPaused, flagVars>>
    ELSE LET r0 == [IdleRun EXCEPT !.activeModel = activeModel,
                                   !.epochs = epochs,
                                   !.batchSize = batchSize,
                                   !.numBatches = CeilDiv(dataRef, batchSize)]
             r2 == LoopEpoch(r0, FlagAtStart(stopTrainingRef),
                             FlagAtStart(pauseTrainingRef))
         IN  /\ optimizer' = "train"
             /\ stopTrainingRef' = FlagAtStart(stopTrainingRef)
             /\ pauseTrainingRef' = FlagAtStart(pauseTrainingRef)
             /\ runs' = [runs EXCEPT ![FreeSlot] = r2]
             /\ isTraining' = (r2.pc # "done")
             /\ isPaused' = FALSE
             /\ trainedEpochs' = base + (IF r2.pc = "done"
                                         THEN r2.completedEpochs ELSE 0)

\* TrainingPanel.handleStartTraining (tsx): onInitModel when there is no
\* model, then train() with the model passed as modelOverride
StartTraining(epochs, batchSize) ==
    /\ StartEnabled
    /\ FreeSlots # {}
    /\ model = NoModel => CanCreate
    /\ LET created == model = NoModel
           activeModel == IF created THEN ModelAfterSet ELSE model
           base == IF created THEN 0 ELSE trainedEpochs
           compiled == IF created THEN "created" ELSE optimizer
       IN  /\ base + epochs <= MaxTrained
           /\ IF created
              THEN SetModel("new")
              ELSE UNCHANGED <<model, nextModel, disposed, modelSource,
                               trainingHistory, lastValAccuracy>>
           /\ Train(activeModel, epochs, batchSize, base, compiled)
    /\ UNCHANGED <<trainingProgress, dataVars, loadVars>>

\* TrainingPanel.handleStartTraining (jsx): onInitModel when there is no
\* model, then train() without modelOverride; train is the callback of the
\* render in which the button was clicked and reads that render's model
StartTrainingJsx(epochs, batchSize) ==
    /\ StartEnabled
    /\ FreeSlots # {}
    /\ model = NoModel => CanCreate
    /\ LET created == model = NoModel
           base == IF created THEN 0 ELSE trainedEpochs
           compiled == IF created THEN "created" ELSE optimizer
       IN  /\ base + epochs <= MaxTrained
           /\ IF created
              THEN SetModel("new")
              ELSE UNCHANGED <<model, nextModel, disposed, modelSource,
                               trainingHistory, lastValAccuracy>>
           /\ Train(model, epochs, batchSize, base, compiled)
    /\ UNCHANGED <<trainingProgress, dataVars, loadVars>>

\* stopTraining, lines 228-231; the Stop button is rendered while isTraining
StopTraining ==
    /\ isTraining
    /\ stopTrainingRef' = TRUE
    /\ pauseTrainingRef' = FALSE
    /\ UNCHANGED <<modelVars, isTraining, isPaused, trainingProgress,
                   trainingHistory, lastValAccuracy, trainedEpochs, dataVars, runs, loadVars>>

\* pauseTraining, lines 234-237; the Pause/Resume button is rendered while
\* isTraining
PauseTraining ==
    /\ isTraining
    /\ pauseTrainingRef' = ~pauseTrainingRef
    /\ isPaused' = ~pauseTrainingRef
    /\ UNCHANGED <<modelVars, isTraining, trainingProgress, trainingHistory, lastValAccuracy,
                   trainedEpochs, dataVars, stopTrainingRef, runs, loadVars>>

\* ------------------------------------------------------------------------
\* The resumptions of train() after each await
\* ------------------------------------------------------------------------

\* line 135: the 100 ms timer fires and the wait loop is left
PauseWakeEpoch(i) ==
    /\ runs[i].pc = "pauseE"
    /\ ~PauseWaiting(stopTrainingRef, pauseTrainingRef)
    /\ Commit(i, EpochBody(runs[i], stopTrainingRef, pauseTrainingRef))
    /\ UNCHANGED <<modelVars, trainingProgress, trainingHistory, lastValAccuracy, dataVars,
                   flagVars, loadVars>>

\* line 147: the 100 ms timer fires and the wait loop is left
PauseWakeBatch(i) ==
    /\ runs[i].pc = "pauseB"
    /\ ~PauseWaiting(stopTrainingRef, pauseTrainingRef)
    /\ Commit(i, BatchBody(runs[i], stopTrainingRef))
    /\ UNCHANGED <<modelVars, trainingProgress, trainingHistory, lastValAccuracy, dataVars,
                   flagVars, loadVars>>

\* lines 153-181: trainOnBatch resolves
BatchDone(i) ==
    /\ runs[i].pc = "batch"
    /\ LET r == runs[i]
           r1 == [r EXCEPT !.epochLoss = @ + BatchLoss(r.batch),
                           !.epochAcc = @ + BatchAcc(r.batch),
                           !.batchCount = @ + 1,
                           !.slices = FALSE]
       IN  /\ trainingProgress' = [epoch |-> r.epoch + 1,
                                   batch |-> r.batch + 1,
                                   totalBatches |-> r.numBatches]
           /\ IF r.batch % FramePeriod = 0
              THEN Commit(i, [r1 EXCEPT !.pc = "frameB"])
              ELSE Commit(i, LoopBatch([r1 EXCEPT !.batch = @ + 1],
                                       stopTrainingRef, pauseTrainingRef))
    /\ UNCHANGED <<modelVars, trainingHistory, lastValAccuracy, dataVars, flagVars, loadVars>>

\* line 153: trainOnBatch rejects; it can only do so on a disposed model
BatchFailed(i) ==
    /\ runs[i].pc = "batch"
    /\ runs[i].activeModel \in disposed
    /\ Commit(i, Throw(runs[i]))
    /\ UNCHANGED <<modelVars, trainingProgress, trainingHistory, lastValAccuracy, dataVars,
                   flagVars, loadVars>>

\* line 179: tf.nextFrame() resolves, batch++
BatchFrame(i) ==
    /\ runs[i].pc = "frameB"
    /\ Commit(i, LoopBatch([runs[i] EXCEPT !.batch = @ + 1],
                           stopTrainingRef, pauseTrainingRef))
    /\ UNCHANGED <<modelVars, trainingProgress, trainingHistory, lastValAccuracy, dataVars,
                   flagVars, loadVars>>

\* lines 187-215: the validation values arrive, the epoch is recorded and
\* the history published
EvalDone(i) ==
    /\ runs[i].pc = "eval"
    /\ LET r2 == RecordEpoch(runs[i])
       IN  /\ Commit(i, r2)
           /\ trainingHistory' = r2.history
           /\ lastValAccuracy' = Len(r2.history)
    /\ UNCHANGED <<modelVars, trainingProgress, dataVars, flagVars, loadVars>>

\* line 215: tf.nextFrame() resolves, epoch++
EpochFrame(i) ==
    /\ runs[i].pc = "frameE"
    /\ Commit(i, LoopEpoch([runs[i] EXCEPT !.epoch = @ + 1],
                           stopTrainingRef, pauseTrainingRef))
    /\ UNCHANGED <<modelVars, trainingProgress, trainingHistory, lastValAccuracy, dataVars,
                   flagVars, loadVars>>

RunStep(i) ==
    \/ PauseWakeEpoch(i)
    \/ PauseWakeBatch(i)
    \/ BatchDone(i)
    \/ BatchFailed(i)
    \/ BatchFrame(i)
    \/ EvalDone(i)
    \/ EpochFrame(i)

\* every command and continuation other than the start button
PanelNext ==
    \/ SelectUntrained
    \/ SelectUserSaved
    \/ SelectPretrained
    \/ PretrainedLoaded
    \/ PretrainedFailed
    \/ HandleLoad
    \/ ModelLoaded
    \/ ModelLoadFailed
    \/ HandleJsonChange
    \/ SaveTrainedModel
    \/ \E useFull \in BOOLEAN : HandleLoadData(useFull)
    \/ DataLoaded
    \/ DataLoadFailed
    \/ StopTraining
    \/ PauseTraining
    \/ \E i \in RunIds : RunStep(i)

\* the application with TrainingPanel.tsx
Next ==
    \/ PanelNext
    \/ \E epochs \in 1..MaxEpochs, batchSize \in 1..MaxBatchSize :
           StartTraining(epochs, batchSize)

Spec == Init /\ [][Next]_vars

\* the application with TrainingPanel.jsx
JsxNext ==
    \/ PanelNext
    \/ \E epochs \in 1..MaxEpochs, batchSize \in 1..MaxBatchSize :
           StartTrainingJsx(epochs, batchSize)

JsxSpec == Init /\ [][JsxNext]_vars

\* ------------------------------------------------------------------------
\* The hook called directly: a client that calls the functions useModel
\* returns without the panels' disabled controls, one train() at a time
\* ------------------------------------------------------------------------

\* initModel(), lines 52-63
InitModelCall ==
    /\ CanCreate
    /\ ReplaceModel("new")
    /\ UNCHANGED <<isTraining, isPaused, trainingProgress, dataVars,
                   flagVars, runs, loadVars>>

\* loadData(useFull) up to the await of the loader
LoadDataCall(useFull) ==
    /\ dataCall = "none"
    /\ LoadDataBegin(useFull)
    /\ UNCHANGED <<modelVars, isTraining, isPaused, trainingProgress,
                   trainingHistory, lastValAccuracy, trainedEpochs, flagVars,
                   runs, isLoadingData, isLoading, isLoadingModel,
                   userTrainedModel, savedWeightsRef, gb, viewVars, error>>

\* train({epochs, batchSize}) without modelOverride, up to its first await
TrainCall(epochs, batchSize) ==
    /\ ~isTraining
    /\ FreeSlots # {}
    /\ trainedEpochs + epochs <= MaxTrained
    /\ Train(model, epochs, batchSize, trainedEpochs, optimizer)
    /\ UNCHANGED <<model, nextModel, disposed, modelSource, trainingHistory,
                   lastValAccuracy, trainingProgress, dataVars, loadVars>>

\* stopTraining(), lines 228-231, whether or not a run is active
StopCall ==
    /\ stopTrainingRef' = TRUE
    /\ pauseTrainingRef' = FALSE
    /\ UNCHANGED <<modelVars, isTraining, isPaused, trainingProgress,
                   trainingHistory, lastValAccuracy, trainedEpochs, dataVars,
                   runs, loadVars>>

HookNext ==
    \/ InitModelCall
    \/ \E useFull \in BOOLEAN : LoadDataCall(useFull)
    \/ DataLoaded
    \/ DataLoadFailed
    \/ \E epochs \in 1..MaxEpochs, batchSize \in 1..MaxBatchSize :
           TrainCall(epochs, batchSize)
    \/ StopCall
    \/ PauseTraining
    \/ \E i \in RunIds : RunStep(i)

HookSpec == Init /\ [][HookNext]_vars

\* fairness: the event loop eventually runs every timer and promise
\* continuation of a suspended train() invocation
LiveSpec == HookSpec /\ \A i \in RunIds : WF_vars(RunStep(i))

\* ------------------------------------------------------------------------
\* getBatch and the batch loop of one epoch
\* ------------------------------------------------------------------------

Min(a, b) == IF a <= b THEN a ELSE b

\* a slice that is not clipped at the end of the data
GetBatchNoClip(numExamples, batchSize, batchIndex) ==
    LET startIndex == (batchIndex * batchSize) % numExamples
    IN  [startIndex |-> startIndex, endIndex |-> startIndex + batchSize]

\* getBatch, mnistLoader.ts lines 163-172: the examples
\* startIndex .. endIndex - 1
GetBatch(numExamples, batchSize, batchIndex) ==
    LET startIndex == (batchIndex * batchSize) % numExamples
        endIndex == Min(startIndex + batchSize, numExamples)
    IN  [startIndex |-> startIndex, endIndex |-> endIndex]

\* the pairs (numTrain, batchSize) the loop is enumerated for
BatchInputs ==
    ((1..MaxExamples) \X (1..MaxSliceSize))
        \cup {<<SampleExamples, DefaultBatchSize>>}

BatchInit ==
    /\ InitApp
    /\ gb \in {[numTrain |-> in[1], batchSize |-> in[2], batch |-> 0,
                 slices |-> <<>>] : in \in BatchInputs}
    /\ cam = NoCam
    /\ heat = NoHeat
    /\ pixel = NoPixel
    /\ pred = NoPred

\* one iteration of the batch loop, useModel.ts lines 125 and 143-151:
\* batch < numBatches, getBatch(dataRef.current, batchSize, batch)
NextBatch ==
    /\ gb.batch < CeilDiv(gb.numTrain, gb.batchSize)
    /\ gb' = [gb EXCEPT !.slices = Append(@, GetBatch(gb.numTrain,
                                                       gb.batchSize,
                                                       gb.batch)),
                        !.batch = @ + 1]
    /\ UNCHANGED <<modelVars, isTraining, isPaused, trainingProgress,
                   trainingHistory, lastValAccuracy, trainedEpochs, dataVars,
                   flagVars, runs, isLoadingData, isLoading, isLoadingModel,
                   userTrainedModel, dataCall, savedWeightsRef, error,
                   viewVars>>

BatchSpec == BatchInit /\ [][NextBatch]_vars

\* ------------------------------------------------------------------------
\* The hot colormap: CAMViewer lines 124-126 and hotColor of
\* visualizationUtils.  The importance is k / Grid; Math.round(x) is
\* floor(x + 1/2), computed on exact fractions.
\* ------------------------------------------------------------------------

Max(a, b) == IF a >= b THEN a ELSE b

\* Math.round(num / den) for den > 0
Round(num, den) == (2 * num + den) \div (2 * den)

\* CAMViewer lines 124-126:
\* r = Math.min(255, Math.round(camVal * 3 * 255))
\* g = Math.min(255, Math.round(Math.max(0, camVal - 0.33) * 3 * 255))
\* b = Math.min(255, Math.round(Math.max(0, camVal - 0.67) * 3 * 255))
CamColor(k) ==
    <<Min(MaxChannel, Round(k * 3 * MaxChannel, Grid)),
      Min(MaxChannel, Round(Max(0, k - 99) * 3 * MaxChannel, Grid)),
      Min(MaxChannel, Round(Max(0, k - 201) * 3 * MaxChannel, Grid))>>

\* hotColor, visualizationUtils lines 76-81:
\* r = Math.round(255 * Math.min(1, t * 3))
\* g = Math.round(255 * Math.max(0, Math.min(1, (t - 0.33) * 3)))
\* b = Math.round(255 * Math.max(0, Math.min(1, (t - 0.67) * 3)))
HotColor(k) ==
    <<Round(MaxChannel * Min(Grid, k * 3), Grid),
      Round(MaxChannel * Max(0, Min(Grid, (k - 99) * 3)), Grid),
      Round(MaxChannel * Max(0, Min(Grid, (k - 201) * 3)), Grid)>>

ColorInit ==
    /\ InitApp
    /\ gb = NoBatches
    /\ cam = NoCam
    /\ heat = NoHeat
    /\ pred = NoPred
    /\ pixel \in {[NoPixel EXCEPT !.value = k] : k \in 0..MaxImportance}

\* one pixel of the overlay is coloured (CAMViewer lines 118-130) and the
\* same importance is passed to hotColor
ColorPixel ==
    /\ ~pixel.drawn
    /\ pixel' = [pixel EXCEPT !.drawn = TRUE,
                              !.rgb = CamColor(pixel.value),
                              !.hot = HotColor(pixel.value)]
    /\ UNCHANGED <<modelVars, isTraining, isPaused, trainingProgress,
                   trainingHistory, lastValAccuracy, trainedEpochs, dataVars,
                   flagVars, runs, isLoadingData, isLoading, isLoadingModel,
                   userTrainedModel, dataCall, savedWeightsRef, error, gb,
                   cam, heat, pred>>

ColorSpec == ColorInit /\ [][ColorPixel]_vars

\* ------------------------------------------------------------------------
\* The heatmap of computeCAM, CAMViewer lines 53-77.  The activation map
\* has one row of MaxCells locations with MaxFilters channels each; a
\* heatmap value is the fraction num / den.
\* ------------------------------------------------------------------------

\* the smallest activation value enumerated
MinAct == 0 - 1

RECURSIVE SumSeq(_)
SumSeq(s) == IF s = <<>> THEN 0 ELSE Head(s) + SumSeq(Tail(s))

RECURSIVE MaxSeq(_)
MaxSeq(s) == IF Len(s) = 1 THEN s[1] ELSE Max(Head(s), MaxSeq(Tail(s)))

RECURSIVE MinSeq(_)
MinSeq(s) == IF Len(s) = 1 THEN s[1] ELSE Min(Head(s), MinSeq(Tail(s)))

\* lines 56-65: cam[y][x] = Math.max(0, sum over f of data[y][x][f])
WeightedSums(act) == [x \in 1..Len(act) |-> Max(0, SumSeq(act[x]))]

\* line 71: const range = maxVal - minVal || 1
Range(maxVal, minVal) == IF maxVal - minVal = 0 THEN 1 ELSE maxVal - minVal

\* a normalisation that does not subtract the minimum
NormaliseNoShift(v, minVal, range) == [num |-> v, den |-> range]

\* line 75: (cam[y][x] - minVal) / range
Normalise(v, minVal, range) == [num |-> v - minVal, den |-> range]

\* the activation maps enumerated
Activations ==
    [1..MaxCells -> [1..MaxFilters -> MinAct..MaxAct]]

HeatInit ==
    /\ InitApp
    /\ gb = NoBatches
    /\ cam = NoCam
    /\ pixel = NoPixel
    /\ pred = NoPred
    /\ heat \in {[NoHeat EXCEPT !.act = a] : a \in Activations}

\* lines 53-77 on the data of convOutput.array()
ComputeHeat ==
    /\ ~heat.done
    /\ LET sums == WeightedSums(heat.act)
           maxVal == MaxSeq(sums)
           minVal == MinSeq(sums)
           range == Range(maxVal, minVal)
       IN  heat' = [heat EXCEPT
                       !.done = TRUE,
                       !.range = range,
                       !.cam = [x \in 1..Len(sums) |->
                                   Normalise(sums[x], minVal, range)]]
    /\ UNCHANGED <<modelVars, isTraining, isPaused, trainingProgress,
                   trainingHistory, lastValAccuracy, trainedEpochs, dataVars,
                   flagVars, runs, isLoadingData, isLoading, isLoadingModel,
                   userTrainedModel, dataCall, savedWeightsRef, error, gb,
                   cam, pixel, pred>>

HeatSpec == HeatInit /\ [][ComputeHeat]_vars

\* ------------------------------------------------------------------------
\* CAMViewer: the [model, inputTensor, prediction] effect and the
\* invocations of computeCAM it starts (part_002 lines 15-152).  The
\* component stays mounted, so both canvases exist whenever the effect
\* runs; input tensors are numbered in the order App hands them over and
\* an overlay is identified by the input it was computed from.
\* ------------------------------------------------------------------------

LayerClasses == {"Conv2D", "MaxPooling2D", "Dense"}

\* conv - pool - conv - pool - conv - flatten - dense - dropout - dense
DefaultLayers ==
    <<"Conv2D", "MaxPooling2D", "Conv2D", "MaxPooling2D", "Conv2D",
      "Flatten", "Dense", "Dropout", "Dense">>

\* the layer orders of the models handed to the viewer
LayerLists ==
    UNION {[1..n -> LayerClasses] : n \in 1..MaxLayers} \cup {DefaultLayers}

\* two of the ten digits a prediction can be
Digits == {3, 8}

\* a search that runs from the first layer upwards
RECURSIVE FirstConvLayer(_, _)
FirstConvLayer(layers, i) ==
    IF i < 1 THEN 0
    ELSE IF FirstConvLayer(layers, i - 1) # 0
         THEN FirstConvLayer(layers, i - 1)
    ELSE IF layers[i] = "Conv2D" THEN i
    ELSE 0

\* lines 23-29: for (i = layers.length - 1; i >= 0; i--) with break on the
\* first Conv2D met; layers are numbered from 1 here and 0 is null
RECURSIVE LastConvLayer(_, _)
LastConvLayer(layers, i) ==
    IF i < 1 THEN 0
    ELSE IF layers[i] = "Conv2D" THEN i
    ELSE LastConvLayer(layers, i - 1)

\* lines 20-44, from the call of computeCAM to its first await or, without
\* a Conv2D layer, to the return of line 33
NewJob(layers, input) ==
    LET conv == LastConvLayer(layers, Len(layers))
    IN  IF conv = 0
        THEN [pc |-> "noConv", input |-> input, convLayer |-> 0,
              convOutput |-> "none"]
        ELSE [pc |-> "convArray", input |-> input, convLayer |-> conv,
              convOutput |-> "live"]

\* lines 16-18 and 150: the effect calls computeCAM unless the model, the
\* input tensor or the prediction is missing
RunEffect(c) ==
    IF c.layers = <<>> \/ c.input = 0 \/ c.prediction = 0 THEN c
    ELSE [c EXCEPT !.jobs = Append(@, NewJob(c.layers, c.input))]

CamInit ==
    /\ InitApp
    /\ gb = NoBatches
    /\ heat = NoHeat
    /\ pixel = NoPixel
    /\ pred = NoPred
    /\ cam \in {[NoCam EXCEPT !.layers = l] : l \in LayerLists}

\* what CAMViewer never touches
camOnly == <<modelVars, isTraining, isPaused, trainingProgress,
             trainingHistory, lastValAccuracy, trainedEpochs, dataVars,
             flagVars, runs, isLoadingData, isLoading, isLoadingModel,
             userTrainedModel, dataCall, savedWeightsRef, error, gb,
             heat, pixel, pred>>

\* App lines 76-79: the previous input tensor is disposed and the new one
\* becomes the inputTensor prop; the effect runs
InputChanged ==
    /\ cam.input < MaxInputs
    /\ Len(cam.jobs) < MaxJobs
    /\ cam' = RunEffect([cam EXCEPT
                            !.released = IF cam.input = 0 THEN @
                                         ELSE @ \cup {cam.input},
                            !.input = @ + 1])
    /\ UNCHANGED camOnly

\* App line 95: setPrediction gives the prop another value; the effect runs
PredictionChanged(digit) ==
    /\ cam.input # 0
    /\ cam.prediction # digit
    /\ Len(cam.jobs) < MaxJobs
    /\ cam' = RunEffect([cam EXCEPT !.prediction = digit])
    /\ UNCHANGED camOnly

\* lines 44-87: convOutput.array() resolves, the map is computed and
\* inputTensor.array() is called; on a disposed tensor it throws and the
\* catch of lines 145-147 logs
ConvArrayDone(j) ==
    /\ j \in 1..Len(cam.jobs)
    /\ cam.jobs[j].pc = "convArray"
    /\ cam' = [cam EXCEPT !.jobs[j].pc =
                              IF cam.jobs[j].input \in cam.released
                              THEN "failed" ELSE "inputArray"]
    /\ UNCHANGED camOnly

\* lines 87-143: inputTensor.array() resolves (its read was issued before
\* any disposal), both canvases are drawn and convOutput is disposed
InputArrayDone(j) ==
    /\ j \in 1..Len(cam.jobs)
    /\ cam.jobs[j].pc = "inputArray"
    /\ cam' = [cam EXCEPT !.jobs[j].pc = "done",
                          !.jobs[j].convOutput = "disposed",
                          !.overlay = cam.jobs[j].input]
    /\ UNCHANGED camOnly

CamNext ==
    \/ InputChanged
    \/ \E digit \in Digits : PredictionChanged(digit)
    \/ \E j \in 1..MaxJobs : ConvArrayDone(j)
    \/ \E j \in 1..MaxJobs : InputArrayDone(j)

CamSpec == CamInit /\ [][CamNext]_vars

\* ------------------------------------------------------------------------
\* Prediction: DrawingCanvas.handlePredict and App.handleImageReady
\* (part_001 lines 300-306, part_006 lines 70-113) with predict and
\* getLayerOutputs of the hook.  The tensors of invocation c are
\* [call |-> c, kind |-> k]: its input tensor, its prediction tensor and
\* the tensors getLayerOutputs returned to it.
\* ------------------------------------------------------------------------

Tensor(c, kind) == [call |-> c, kind |-> kind]

\* what the prediction handlers never touch
predOnly == <<isTraining, isPaused, trainingProgress, dataVars, flagVars,
              runs, isLoadingData, isLoading, isLoadingModel,
              userTrainedModel, dataCall, savedWeightsRef, error, gb,
              cam, heat, pixel>>

\* the Predict button is disabled while training or predicting (part_001
\* lines 300 and 386; disabled = isTraining, part_006 line 222)
PredictEnabled == ~isTraining /\ ~pred.isPredicting

\* handlePredict and handleImageReady up to line 92: setIsPredicting(true),
\* initModel(0.001) when there is no model, the previous input tensor is
\* disposed, predict(tensor) or, with the callback of a render without a
\* model, tf.tidy(activeModel.predict(tensor)); await predictionTensor.data()
HandlePredict ==
    /\ PredictEnabled
    /\ Len(pred.calls) < MaxPredictions
    /\ model = NoModel => CanCreate
    /\ LET c == Len(pred.calls) + 1
           created == model = NoModel
           activeModel == IF created THEN ModelAfterSet ELSE model
       IN  /\ IF created
              THEN ReplaceModel("new")
              ELSE UNCHANGED <<modelVars, trainingHistory, lastValAccuracy,
                               trainedEpochs>>
           /\ pred' = [pred EXCEPT
                  !.isPredicting = TRUE,
                  !.inputTensorRef = c,
                  !.live = (@ \ {Tensor(pred.inputTensorRef, "input")})
                               \cup {Tensor(c, "input"),
                                     Tensor(c, "prediction")},
                  !.calls = Append(@, [pc |-> "data", model |-> model,
                                       activeModel |-> activeModel,
                                       outputs |-> FALSE])]
    /\ UNCHANGED predOnly

\* getLayerOutputs (useModel.ts lines 300-328) of the render in which the
\* handler was created: {} without a model; each layer's predict throws,
\* and is skipped, when the model or the input tensor has been disposed
HasLayerOutputs(call, c) ==
    /\ call.model # NoModel
    /\ call.model \notin disposed
    /\ Tensor(c, "input") \in pred.live

\* lines 92-111: the probabilities arrive, the prediction is published,
\* getLayerOutputs(tensor) replaces the layerOutputs state,
\* predictionTensor is disposed and isPredicting cleared
PredictionData(c) ==
    /\ c \in 1..Len(pred.calls)
    /\ pred.calls[c].pc = "data"
    /\ LET outputs == HasLayerOutputs(pred.calls[c], c)
       IN  pred' = [pred EXCEPT
                  !.isPredicting = FALSE,
                  !.layerOutputs = IF outputs THEN c ELSE 0,
                  !.live = (@ \ {Tensor(c, "prediction")})
                               \cup (IF outputs
                                     THEN {Tensor(c, "layerOutputs")}
                                     ELSE {}),
                  !.calls[c].pc = "done",
                  !.calls[c].outputs = outputs]
    /\ UNCHANGED <<modelVars, trainingHistory, lastValAccuracy,
                   trainedEpochs>>
    /\ UNCHANGED predOnly

\* lines 92 and 108-112: predictionTensor.data() rejects; the catch logs
\* and the finally clears isPredicting
PredictionFailed(c) ==
    /\ c \in 1..Len(pred.calls)
    /\ pred.calls[c].pc = "data"
    /\ pred' = [pred EXCEPT !.isPredicting = FALSE,
                            !.calls[c].pc = "failed"]
    /\ UNCHANGED <<modelVars, trainingHistory, lastValAccuracy,
                   trainedEpochs>>
    /\ UNCHANGED predOnly

\* the continuations of train() on a model that is never replaced
TrainStep(i) ==
    \/ PauseWakeEpoch(i)
    \/ PauseWakeBatch(i)
    \/ BatchDone(i)
    \/ BatchFrame(i)
    \/ EvalDone(i)
    \/ EpochFrame(i)

\* the canvas and the training panel
PredictNext ==
    \/ HandlePredict
    \/ \E c \in 1..MaxPredictions : PredictionData(c)
    \/ \E c \in 1..MaxPredictions : PredictionFailed(c)
    \/ \E useFull \in BOOLEAN : HandleLoadData(useFull)
    \/ DataLoaded
    \/ \E epochs \in 1..MaxEpochs, batchSize \in 1..MaxBatchSize :
           StartTraining(epochs, batchSize)
    \/ PauseTraining
    \/ StopTraining
    \/ \E i \in RunIds : TrainStep(i)

PredictSpec == Init /\ [][PredictNext]_vars

\* ------------------------------------------------------------------------
\* Properties
\* ------------------------------------------------------------------------

\* await positions of an epoch that precede its validation step
PreValidationPcs == {"pauseE", "pauseB", "batch", "frameB"}

\* the step makes invocation i call trainOnBatch
BatchStarts(i) ==
    /\ runs'[i].pc = "batch"
    /\ \/ runs[i].pc # "batch"
       \/ runs'[i].batch # runs[i].batch
       \/ runs'[i].epoch # runs[i].epoch

\* the step resolves the trainOnBatch call of invocation i
BatchCompletes(i) ==
    /\ runs[i].pc = "batch"
    /\ \/ runs'[i].pc = "done"
       \/ runs'[i].batchCount = runs[i].batchCount + 1

\* the step makes invocation i call evaluate
EvalStarts(i) == runs'[i].pc = "eval" /\ runs[i].pc # "eval"

\* the step makes invocation i return
Returns(i) == runs'[i].pc = "done" /\ runs[i].pc # "done"

Failed == \E i \in RunIds : runs[i].pc = "failed"

Idle == ~isTraining /\ ~isPaused

IsPrefix(s, t) == Len(s) <= Len(t) /\ \A k \in 1..Len(s) : s[k] = t[k]

\* C1: a run that is in epoch k (epoch index k-1) before its validation step
\* holds exactly k-1 records and k-1 completed epochs; once stop is requested
\* there, it records nothing more, stays in that epoch until it leaves the
\* loop, and its return adds exactly k-1 to trainedEpochs.
C1_StopKeepsCompletedEpochs ==
    [][\A i \in RunIds :
         LET r == runs[i]
             r2 == runs'[i]
         IN  r.pc \in PreValidationPcs =>
               /\ r.completedEpochs = r.epoch
               /\ Len(r.history) = r.epoch
               /\ stopTrainingRef =>
                    /\ stopTrainingRef'
                    /\ r2.pc \in PreValidationPcs \cup {"done", "failed"}
                    /\ r2.pc \in PreValidationPcs => r2.epoch = r.epoch
                    /\ r2.pc # "failed" =>
                         /\ r2.history = r.history
                         /\ r2.completedEpochs = r.completedEpochs
                    /\ r2.pc = "done" =>
                         trainedEpochs' = trainedEpochs + r.epoch]_vars

\* C1 witness: a run of 2 epochs stopped during its second epoch, after a
\* batch of that epoch was published, has returned with 1 record
C1_Witness ==
    \E i \in RunIds :
        /\ runs[i].pc = "done"
        /\ stopTrainingRef
        /\ runs[i].epochs = 2
        /\ trainingProgress.epoch = 2
        /\ Len(runs[i].history) = 1
        /\ runs[i].completedEpochs = 1
        /\ trainedEpochs >= 1

\* C2: no step calls trainOnBatch while the pause flag is set, and toggling
\* pause while a batch is in flight leaves that train() invocation as it is.
C2_NoBatchStartsWhilePaused ==
    [][\A i \in RunIds :
         /\ BatchStarts(i) => ~pauseTrainingRef'
         /\ (runs[i].pc = "batch" /\ pauseTrainingRef' # pauseTrainingRef)
               => runs'[i] = runs[i]]_vars

\* C2 witness: pause is set, stop is not, and a batch is in flight
C2_Witness ==
    \E i \in RunIds :
        /\ runs[i].pc = "batch"
        /\ pauseTrainingRef
        /\ ~stopTrainingRef

\* C3 as stated: while the pause flag stays set no batch completes and the
\* published batch index does not advance.
C3_Original ==
    [][(pauseTrainingRef /\ pauseTrainingRef') =>
          /\ trainingProgress'.batch = trainingProgress.batch
          /\ \A i \in RunIds : ~BatchCompletes(i)]_vars

\* C3 amended: while the pause flag stays set no batch starts; the published
\* progress changes only when the batch that was in flight completes, which
\* leaves no batch in flight, so it advances at most once.
C3_OnlyInFlightBatchCompletes ==
    [][(pauseTrainingRef /\ pauseTrainingRef') =>
          /\ \A i \in RunIds : ~BatchStarts(i)
          /\ \A i \in RunIds : BatchCompletes(i) => runs'[i].pc # "batch"
          /\ trainingProgress' # trainingProgress =>
               \E i \in RunIds : BatchCompletes(i)]_vars

\* C3 witness: paused and not stopped, the in-flight batch has completed and
\* the loop waits before the next batch with the progress at that batch
C3_Witness ==
    \E i \in RunIds :
        /\ runs[i].pc = "pauseB"
        /\ pauseTrainingRef
        /\ ~stopTrainingRef
        /\ runs[i].batchCount >= 1
        /\ trainingProgress.batch = runs[i].batch

\* C4: once the stop flag is set no step calls trainOnBatch or evaluate, and
\* the flag stays set for as long as the invocation is suspended.
C4_NoBatchAfterStop ==
    [][\A i \in RunIds :
         /\ stopTrainingRef' => (~BatchStarts(i) /\ ~EvalStarts(i))
         /\ (stopTrainingRef /\ Active(runs[i])) => stopTrainingRef']_vars

\* C4 witness: stop arrived during the last batch of the first epoch; the
\* batch finished, validation was skipped and the run returned
C4_Witness ==
    \E i \in RunIds :
        /\ runs[i].pc = "done"
        /\ stopTrainingRef
        /\ trainingProgress.epoch = 1
        /\ trainingProgress.batch = trainingProgress.totalBatches
        /\ runs[i].history = <<>>

\* C5: under LiveSpec, a run whose stop was requested ends Idle (or its tf
\* call threw), and if the pause flag is eventually left clear every run
\* ends Idle (or its tf call threw).
C5_RunTerminates ==
    /\ (isTraining /\ stopTrainingRef) ~> (Idle \/ Failed)
    /\ (<>[](~pauseTrainingRef)) => (isTraining ~> (Idle \/ Failed))

\* C5 witness: a stopped run has returned before its last epoch and the
\* controller is Idle
C5_Witness ==
    \E i \in RunIds :
        /\ runs[i].pc = "done"
        /\ Len(runs[i].history) < runs[i].epochs
        /\ stopTrainingRef
        /\ Idle

\* C6: a run that returns with the stop flag clear returns E records in
\* epoch order, counted E completed epochs, adds E to trainedEpochs and
\* leaves isTraining and isPaused false; every record is published as the
\* run's whole history when it is pushed.
C6_CompleteRunRecordsAllEpochs ==
    [][\A i \in RunIds :
         LET r2 == runs'[i]
         IN  /\ (Returns(i) /\ ~stopTrainingRef') =>
                   /\ Len(r2.history) = r2.epochs
                   /\ \A k \in 1..Len(r2.history) : r2.history[k].epoch = k
                   /\ r2.completedEpochs = r2.epochs
                   /\ trainedEpochs' = trainedEpochs + r2.epochs
                   /\ ~isTraining'
                   /\ ~isPaused'
             /\ (runs[i].pc = "eval" /\ r2.pc = "frameE") =>
                   /\ trainingHistory' = r2.history
                   /\ Len(r2.history) = r2.epoch + 1]_vars

\* C6 witness: epochs=2 on a fresh model ended with 2 records and
\* trainedEpochs 2
C6_Witness ==
    \E i \in RunIds :
        /\ runs[i].pc = "done"
        /\ ~stopTrainingRef
        /\ runs[i].epochs = 2
        /\ Len(runs[i].history) = 2
        /\ trainingHistory = runs[i].history
        /\ trainedEpochs = 2
        /\ Idle

\* C7: while isTraining (Running or Paused) no step changes the active model.
C7_ModelFixedWhileTraining ==
    [][isTraining => model' = model]_vars

\* C8: the model of every suspended train() invocation is not disposed.
C8_RunModelNotDisposed ==
    \A i \in RunIds : Active(runs[i]) => runs[i].activeModel \notin disposed

\* C9: at most one train() invocation is suspended in the loop at any time.
C9_SingleActiveRun ==
    Cardinality({i \in RunIds : Active(runs[i])}) <= 1

\* C9 witness: a run is still exiting after stop, with a dataset loaded and
\* room for a second invocation
C9_Witness ==
    /\ \E i \in RunIds : Active(runs[i])
    /\ stopTrainingRef
    /\ dataLoaded
    /\ FreeSlots # {}

\* C10: a step that keeps the active model only extends the published
\* history.
C10_HistoryAppendOnly ==
    [][model' = model => IsPrefix(trainingHistory, trainingHistory')]_vars

\* C11: a step that replaces the active model sets trainedEpochs to 0, and a
\* step that keeps it changes trainedEpochs only by adding the completed
\* epochs of a returning run that trained that model.
C11_TrainedEpochsCountsActiveModel ==
    [][/\ model' # model => trainedEpochs' = 0
       /\ model' = model =>
              \/ trainedEpochs' = trainedEpochs
              \/ \E i \in RunIds :
                     /\ Returns(i)
                     /\ runs[i].activeModel = model
                     /\ trainedEpochs' =
                            trainedEpochs + runs'[i].completedEpochs]_vars

\* C12: once a train() invocation has failed, isTraining and isPaused are
\* false.
C12_FailedRunReturnsToIdle ==
    \A i \in RunIds : runs[i].pc = "failed" => Idle

\* C15: while a run is active the published progress stays within that
\* run's batches per epoch and requested epochs.
C15_ProgressWithinActiveRun ==
    \A i \in RunIds :
        Active(runs[i]) =>
            /\ trainingProgress.batch <= runs[i].numBatches
            /\ trainingProgress.epoch <= runs[i].epochs

\* the step makes a train() call return at its guard
Rejected(i) == runs'[i].pc = "rejected" /\ runs[i].pc # "rejected"

\* the step makes a train() call pass its guard
Launched(i) ==
    /\ ~Active(runs[i])
    /\ runs[i].pc # "failed"
    /\ runs'[i] # runs[i]
    /\ runs'[i].pc # "rejected"

\* C13: a train() call is rejected exactly when there is no model or no
\* dataset; the rejecting step starts no run and leaves the optimizer,
\* isTraining, isPaused, the stop and pause flags, the published history and
\* progress and trainedEpochs unchanged.
C13_NotReadyRejected ==
    [][\A i \in RunIds :
         /\ Rejected(i) =>
               /\ model = NoModel \/ dataRef = 0
               /\ \A j \in RunIds : ~Active(runs'[j])
               /\ UNCHANGED <<optimizer, isTraining, isPaused, flagVars,
                              trainingHistory, lastValAccuracy,
                              trainingProgress, trainedEpochs>>
         /\ Launched(i) =>
               /\ runs'[i].activeModel # NoModel
               /\ dataRef # 0]_vars

\* C13 witness: train() has been rejected with a model but no dataset, and
\* the stop flag set before the call is still set
C13_Witness ==
    \E i \in RunIds :
        /\ runs[i].pc = "rejected"
        /\ model # NoModel
        /\ dataRef = 0
        /\ stopTrainingRef
        /\ optimizer = "created"
        /\ Idle

\* a step, taken while no run is active, that changes a flag without
\* calling train(): stopTraining()
IdleStop == ~isTraining /\ flagVars' # flagVars /\ runs' = runs

\* C14: stopTraining() with no run active leaves both flags in the same
\* values whatever they were and changes no published state; a run started
\* afterwards is active, Running and unpaused with both flags clear, and a
\* run that returns with the stop flag clear has recorded all its epochs.
C14_IdleStopIdempotent ==
    [][/\ IdleStop =>
             /\ stopTrainingRef' /\ ~pauseTrainingRef'
             /\ UNCHANGED <<isTraining, isPaused, trainingHistory,
                            trainedEpochs, trainingProgress>>
       /\ \A i \in RunIds :
             /\ Launched(i) =>
                   /\ Active(runs'[i])
                   /\ runs'[i].completedEpochs = 0
                   /\ isTraining' /\ ~isPaused'
                   /\ ~stopTrainingRef' /\ ~pauseTrainingRef'
             /\ (Returns(i) /\ ~stopTrainingRef') =>
                   runs'[i].completedEpochs = runs'[i].epochs]_vars

\* C14 witness: stopTraining() has been called on a controller that is ready
\* to train and on which train() was never called
C14_Witness ==
    /\ \A i \in RunIds : runs[i].pc = "idle"
    /\ stopTrainingRef
    /\ ~pauseTrainingRef
    /\ model # NoModel
    /\ dataLoaded
    /\ Idle

\* the examples startIndex .. endIndex - 1 of a slice
Examples(slice) == slice.startIndex .. (slice.endIndex - 1)

\* C16: the k-th batch of an epoch is the slice
\* [(k-1)*batchSize, min(k*batchSize, numTrain)), which is non-empty and
\* starts where the product does (the modulus does not take effect); the
\* loop makes ceil(numTrain/batchSize) batches, which are pairwise disjoint
\* and cover 0..numTrain-1, the last holding
\* numTrain - (numBatches-1)*batchSize examples; 500 and 32 give 16 batches,
\* the last of 20.
C16_EpochBatchesPartition ==
    LET n == gb.numTrain
        b == gb.batchSize
        numBatches == CeilDiv(n, b)
        slices == gb.slices
    IN  n >= 1 =>
          /\ gb.batch = Len(slices)
          /\ gb.batch <= numBatches
          /\ \A k \in 1..Len(slices) :
                /\ slices[k].startIndex = (k - 1) * b
                /\ slices[k].endIndex = Min(k * b, n)
                /\ slices[k].startIndex < slices[k].endIndex
          /\ \A k, l \in 1..Len(slices) :
                k # l => Examples(slices[k]) \cap Examples(slices[l]) = {}
          /\ gb.batch = numBatches =>
                /\ UNION {Examples(slices[k]) : k \in 1..numBatches}
                       = 0..(n - 1)
                /\ Cardinality(Examples(slices[numBatches]))
                       = n - (numBatches - 1) * b
          /\ (n = SampleExamples /\ b = DefaultBatchSize) =>
                /\ numBatches = 16
                /\ gb.batch = 16 => Cardinality(Examples(slices[16])) = 20

\* C16 witness: the 16 batches of 500 examples in batches of 32 have been
\* sliced
C16_Witness ==
    /\ gb.numTrain = SampleExamples
    /\ gb.batchSize = DefaultBatchSize
    /\ gb.batch = 16
    /\ gb.slices[16] = [startIndex |-> 480, endIndex |-> 500]

\* C17: no train() call made by the start button is rejected.
C17_StartNeverRejected ==
    \A i \in RunIds : runs[i].pc # "rejected"

\* C18: whenever no loadData call is in flight, dataLoaded tells whether a
\* dataset is held and useFullDataset is the variant of the held dataset (a
\* failed call has put back what it found).
C18_FailedLoadKeepsDataState ==
    dataCall = "none" =>
        /\ dataLoaded = (dataRef # 0)
        /\ dataRef # 0 => dataRef = NumTrainOf(IF useFullDataset
                                               THEN "full" ELSE "sample")

\* the step ends a loadModel or loadPretrained call that produced no model
LoadFails ==
    /\ \/ isLoading /\ ~isLoading'
       \/ isLoadingModel /\ ~isLoadingModel'
    /\ nextModel' = nextModel

SnapshotsCreated == savedWeightsRef .. (-1)

\* C20: at most one snapshot is retained; its tensors are not disposed and
\* are no model's weight tensors (the active model's, a running
\* invocation's or a disposed model's), so selecting the saved model stays
\* possible.
C20_SnapshotUsable ==
    /\ userTrainedModel = (savedWeightsRef # 0)
    /\ Cardinality(SnapshotsCreated \ disposed) <= 1
    /\ savedWeightsRef # 0 =>
          /\ savedWeightsRef \notin disposed
          /\ savedWeightsRef \notin 1..(nextModel - 1)
          /\ \A i \in RunIds : runs[i].activeModel # savedWeightsRef

\* C20 witness: the snapshot was saved from model 1, the saved model was
\* then selected (model 1 disposed, model 2 created from the snapshot) and
\* the snapshot is still retained
C20_Witness ==
    /\ savedWeightsRef # 0
    /\ savedWeightsRef \notin disposed
    /\ model = 2
    /\ 1 \in disposed
    /\ modelSource = "new"
    /\ trainedEpochs = 0

\* ------------------------------------------------------------------------
\* C21
\* ------------------------------------------------------------------------

\* all values of the activation tensor
ActValues == {heat.act[x][f] : x \in 1..MaxCells, f \in 1..MaxFilters}

\* the rectified channel sums that are normalised
CamSums == WeightedSums(heat.act)

InUnit(q) == 0 <= q.num /\ q.num <= q.den
IsZero(q) == q.num = 0 /\ q.den # 0
IsOne(q) == q.num = q.den /\ q.den # 0

FullScale ==
    /\ \A x \in 1..MaxCells : InUnit(heat.cam[x])
    /\ \E x \in 1..MaxCells : IsZero(heat.cam[x])
    /\ \E x \in 1..MaxCells : IsOne(heat.cam[x])

AllZero == heat.range # 0 /\ \A x \in 1..MaxCells : IsZero(heat.cam[x])

\* C21 as stated: for an activation tensor with max > min the heatmap lies
\* in [0,1] and takes the values 0 and 1; for an all-equal activation
\* tensor every heatmap value is 0 and the divisor is not zero.
C21_Original ==
    heat.done =>
        /\ Cardinality(ActValues) > 1 => FullScale
        /\ Cardinality(ActValues) = 1 => AllZero

\* C21 amended: the heatmap lies in [0,1] and takes the values 0 and 1
\* whenever the rectified channel sums are not all equal; when they are
\* all equal (as for an all-equal activation tensor) every heatmap value
\* is 0 and the divisor is 1.
C21_HeatmapNormalised ==
    heat.done =>
        /\ MaxSeq(CamSums) > MinSeq(CamSums) => FullScale
        /\ MaxSeq(CamSums) = MinSeq(CamSums) => AllZero /\ heat.range = 1
        /\ Cardinality(ActValues) = 1 => AllZero

\* two locations with the channel sums 1 and 2 get the heatmap values 0
\* and 1
C21_Witness ==
    /\ heat.done
    /\ \E x, y \in 1..MaxCells :
          /\ CamSums[x] = 1 /\ heat.cam[x] = [num |-> 0, den |-> 1]
          /\ CamSums[y] = 2 /\ heat.cam[y] = [num |-> 1, den |-> 1]
          /\ \A z \in 1..MaxCells : CamSums[z] \in {1, 2}

\* ------------------------------------------------------------------------
\* C22
\* ------------------------------------------------------------------------

\* the properties the claim gives the colormap, for the colour c of
\* importance k / Grid and the colours of the importances below it
HotColormap(k, c, below) ==
    /\ k = 0 => c = <<0, 0, 0>>
    /\ \A ch \in 1..3 : c[ch] \in 0..MaxChannel
    /\ \A d \in below : \A ch \in 1..3 : d[ch] <= c[ch]
    /\ 3 * k >= Grid => c[1] = MaxChannel
    /\ 3 * k >= 2 * Grid => c[2] = MaxChannel
    /\ k >= Grid => c[3] = MaxChannel

\* C22: in the hot colormap importance 0 maps to (0,0,0), every channel
\* lies in [0,255] and is non-decreasing in the importance, red is 255
\* from importance 1/3 on, green is 255 from 2/3 on and blue is 255 at
\* importance 1.
C22_HotColormap ==
    pixel.drawn =>
        /\ HotColormap(pixel.value, pixel.rgb,
                       {CamColor(j) : j \in 0..pixel.value})
        /\ HotColormap(pixel.value, pixel.hot,
                       {HotColor(j) : j \in 0..pixel.value})

\* ------------------------------------------------------------------------
\* C26
\* ------------------------------------------------------------------------

\* the indices of the Conv2D layers of the viewer's model
ConvLayers == {i \in 1..Len(cam.layers) : cam.layers[i] = "Conv2D"}

\* the computeCAM invocations started by the step
StartedJobs == (Len(cam.jobs) + 1) .. Len(cam'.jobs)

\* C26: a CAM computation uses the Conv2D layer with the highest index of
\* the model's layer order, whatever follows it; for a model without a
\* Conv2D layer every computation returns at once without an activation
\* tensor, without an error, without ever drawing an overlay and without
\* changing any state outside the viewer.
C26_LastConvLayerUsed ==
    [][\A j \in StartedJobs :
          LET job == cam'.jobs[j]
          IN  IF ConvLayers = {}
              THEN /\ job.pc = "noConv"
                   /\ job.convOutput = "none"
                   /\ cam'.overlay = 0
                   /\ \A k \in 1..Len(cam'.jobs) : cam'.jobs[k].pc = "noConv"
                   /\ UNCHANGED camOnly
              ELSE /\ job.pc = "convArray"
                   /\ job.convLayer \in ConvLayers
                   /\ \A i \in ConvLayers : i <= job.convLayer]_vars

\* on conv-pool-conv-pool-conv-flatten-dense-dropout-dense the overlay has
\* been drawn from layer 5, four layers before the end
C26_Witness ==
    /\ cam.layers = DefaultLayers
    /\ cam.overlay # 0
    /\ \E j \in 1..Len(cam.jobs) :
          /\ cam.jobs[j].pc = "done"
          /\ cam.jobs[j].convLayer = 5

\* ------------------------------------------------------------------------
\* C27
\* ------------------------------------------------------------------------

\* C27: once a CAM computation has returned, by normal completion, by an
\* early return or through its catch, the activation tensor it obtained
\* has been disposed.
C27_ActivationReleased ==
    \A j \in 1..Len(cam.jobs) :
        cam.jobs[j].pc \in {"done", "failed", "noConv"} =>
            cam.jobs[j].convOutput # "live"

\* ------------------------------------------------------------------------
\* C29
\* ------------------------------------------------------------------------

\* C29: a CAM computation never replaces the overlay of a newer input by
\* the overlay of an older one, so the overlay finally displayed belongs
\* to the latest prediction.
C29_LatestOverlayStays ==
    [][cam'.overlay >= cam.overlay]_vars

\* ------------------------------------------------------------------------
\* C23
\* ------------------------------------------------------------------------

\* the models on which the step runs model.predict: the active model of a
\* handleImageReady invocation that starts, and the model of the
\* getLayerOutputs callback of an invocation that resumes with outputs
InferredModels ==
    {pred'.calls[c].activeModel :
        c \in (Len(pred.calls) + 1) .. Len(pred'.calls)}
    \cup {pred.calls[c].model :
            c \in {d \in 1..Len(pred.calls) :
                      /\ pred.calls[d].pc = "data"
                      /\ pred'.calls[d].pc = "done"
                      /\ pred'.calls[d].outputs}}

\* a gradient update (trainOnBatch) on model m is in flight
BatchInFlight(m) ==
    \E i \in RunIds : runs[i].pc = "batch" /\ runs[i].activeModel = m

\* C23: no prediction handler runs model.predict on a model while a
\* trainOnBatch on that model is in flight.
C23_NoInferenceDuringBatch ==
    [][\A m \in InferredModels : ~BatchInFlight(m)]_vars

\* ------------------------------------------------------------------------
\* C24
\* ------------------------------------------------------------------------

\* the tensors App still refers to: the current input tensor and the
\* layer outputs in state
HeldTensors ==
    {Tensor(pred.inputTensorRef, "input"),
     Tensor(pred.layerOutputs, "layerOutputs")}

\* C24: whenever every prediction issued so far has been handled, the only
\* live tensors of these predictions are the ones the application still
\* displays, so their number does not grow with the number of predictions.
C24_NoTensorLeak ==
    (\A c \in 1..Len(pred.calls) : pred.calls[c].pc # "data")
        => pred.live \subseteq HeldTensors

\* ------------------------------------------------------------------------
\* C25
\* ------------------------------------------------------------------------

RECURSIVE SumLoss(_)
SumLoss(n) == IF n = 0 THEN 0 ELSE BatchLoss(n - 1) + SumLoss(n - 1)

RECURSIVE SumAcc(_)
SumAcc(n) == IF n = 0 THEN 0 ELSE BatchAcc(n - 1) + SumAcc(n - 1)

\* the run records an epoch in this step
RecordsEpoch(i) == Len(runs'[i].history) = Len(runs[i].history) + 1

\* C25: whenever a run records an epoch, the recorded trainLoss and
\* trainAccuracy are the plain sums of the values of the batches 0 ..
\* numBatches-1 of that epoch divided by numBatches, and numBatches >= 1.
C25_EpochMeanOverAllBatches ==
    [][\A i \in RunIds :
          RecordsEpoch(i) =>
              LET n == runs[i].numBatches
                  rec == runs'[i].history[Len(runs'[i].history)]
              IN  /\ n >= 1
                  /\ rec.batches = n
                  /\ rec.loss = [num |-> SumLoss(n), den |-> n]
                  /\ rec.accuracy = [num |-> SumAcc(n), den |-> n]]_vars

\* an epoch of two batches (losses 1 and 2, accuracies 1 and 3) has been
\* recorded by a run that was then stopped in its second epoch
C25_Witness ==
    \E i \in RunIds :
        /\ runs[i].pc = "done"
        /\ runs[i].epochs = 2
        /\ runs[i].history =
               <<[epoch |-> 1, batches |-> 2,
                  loss |-> [num |-> 3, den |-> 2],
                  accuracy |-> [num |-> 4, den |-> 2]]>>

\* ------------------------------------------------------------------------
\* C28
\* ------------------------------------------------------------------------

\* C28: the image and label slices of a batch are alive only while its
\* trainOnBatch is awaited: at every other point of the loop, and after
\* the run has returned or failed, none of them is undisposed.
C28_BatchTensorsScoped ==
    \A i \in RunIds : runs[i].slices => runs[i].pc = "batch"

\* ------------------------------------------------------------------------
\* C30
\* ------------------------------------------------------------------------

\* C30: in every reachable state the published isPaused flag equals the
\* pause flag the training loop observes (pauseTrainingRef.current).
C30_PausedFlagMatchesRef ==
    isPaused = pauseTrainingRef

====
